---- MODULE Spec2Model ----
(***************************************************************************)
(* SeedParser task orchestration core: the two flat-file task stores       *)
(* (download_progress.json, transcode_progress.json), the caller           *)
(* operations bound to the UI (enqueue, cancel, resume-waiting), the       *)
(* monitoring goroutines of the child processes, the queue scheduler and   *)
(* startup recovery.                                                       *)
(*                                                                         *)
(* Every handler of the program is a sequence of whole-file reads and      *)
(* whole-file writes with no lock around them.  A thread therefore takes   *)
(* one step per access to the shared store: the step that reads the file   *)
(* keeps the decoded list in the thread's `snap`, the step that writes the *)
(* file stores `snap` back.  Work on local data between two accesses is    *)
(* part of the step that precedes it.                                      *)
(***************************************************************************)
EXTENDS Integers, Sequences, FiniteSets, TLC

\* Bounds of the model.
MaxTasks == 2
MaxCalls == 3
MaxSpawns == 3
MaxLines == 1
MaxClock == 2
MaxRuns == 2
MaxStored == 2

Domains == {"download", "transcode"}

\* status strings of the two record types
ActiveStatus(d) == IF d = "download" THEN "downloading" ELSE "transcoding"

\* One persisted record.  uid is the serial number of the enqueue that
\* created the record (bookkeeping of the model, not a persisted field);
\* pid = 0 stands for "no pid key" / PID zero; progress is the persisted
\* number ("percentage" of a download, "Progress" of a transcode) counted in
\* hundredths: 100 is the number 1.0, 5000 the number 50.0.
NewTask(u, i, now) ==
    [uid |-> u, id |-> i, status |-> "waiting", pid |-> 0,
     startTime |-> now, progress |-> 0, error |-> ""]

VARIABLES
    dom,      \* the domain the running application is exercised in
    store,    \* per domain: the progress file, [fstate, tasks]
    procs,    \* child processes launched by this run; the pid is the index
    thr,      \* threads: 0 = the UI caller (or startup), p = monitor of child p,
              \* MaxSpawns + p = stream reader of transcode child p
    clock,    \* time.Now() in seconds
    toolOk,   \* per domain: tools/torrent.exe resp. tools/ffmpeg/ffmpeg.exe
              \* is there and can be launched
    enq,      \* number of enqueue calls so far
    calls,    \* number of caller operations so far
    lines,    \* output lines of the children consumed so far
    runs,     \* startup recoveries completed
    hist,     \* observations of the run, for stating the properties
    enc       \* one transcode request on its way from the enqueue to the
              \* argument vector of the encoder child (SpecArgs)

vars == <<dom, store, procs, thr, clock, toolOk, enq, calls, lines, runs, hist, enc>>

UI == 0
Monitors == 1..MaxSpawns
Readers == (MaxSpawns + 1)..(2 * MaxSpawns)
Threads == {UI} \cup Monitors \cup Readers

\* a pid left in the store by a previous run of the application
OrphanPid == MaxSpawns + 1

Idle == [op |-> "idle", pc |-> "idle", d |-> "download", id |-> 0,
         snap |-> <<>>, has |-> FALSE, pid |-> 0, res |-> ""]

-----------------------------------------------------------------------------
\* Helpers on decoded lists.

Indices(list) == 1..Len(list)

\* the first index of a loop over the list that meets the test of the loop,
\* given the set S of all the indices that meet it; 0 if none
FirstOf(S) == IF S = {} THEN 0 ELSE CHOOSE i \in S : \A j \in S : i <= j

\* "for i, p := range list { if p.taskId == taskId { ...; break } }"
IndexOfId(list, i) == FirstOf({k \in Indices(list) : list[k].id = i})

HasActive(list, d) == \E i \in Indices(list) : list[i].status = ActiveStatus(d)

FirstWaiting(list) == FirstOf({k \in Indices(list) : list[k].status = "waiting"})

\* os.ReadFile followed by json.Unmarshal
ReadOk(d) == store[d].fstate = "ok"
ReadList(d) == store[d].tasks

\* os.WriteFile: replaces the whole file; fails on a file that cannot be opened
WriteOk(d) == store[d].fstate # "unreadable"
Written(d, list) ==
    IF WriteOk(d)
    THEN [store EXCEPT ![d] = [fstate |-> "ok", tasks |-> list]]
    ELSE store

\* the thread record a handler leaves behind when it returns: the UI thread
\* is idle again, startup goes on with the transcode store after the start of
\* a download and ends after the start of a transcode, a goroutine ends
Return(t, r) ==
    IF thr[t].op = "startup"
    THEN IF thr[t].d = "download"
         THEN [Idle EXCEPT !.op = "startup", !.pc = "su_tc", !.d = "transcode"]
         ELSE [Idle EXCEPT !.op = "startup", !.pc = "su_done", !.d = "transcode"]
    ELSE IF t = UI
    THEN [Idle EXCEPT !.res = r, !.d = thr[t].d]
    ELSE [Idle EXCEPT !.op = thr[t].op, !.pc = "done", !.d = thr[t].d]

Running(p) == p \in DOMAIN procs /\ procs[p].state = "running"

\* time.Now() at an enqueue: seconds are counted from the first enqueue, and
\* the clock may have advanced since the previous one
Nows == IF clock = 0 THEN {1} ELSE {n \in {clock, clock + 1} : n <= MaxClock}

-----------------------------------------------------------------------------
\* Pure steps of the handlers on a decoded list.

\* startDownload: the first record with the task id becomes "downloading"
\* and gets the child's pid, whatever its status was
MarkDownloading(list, i, p) ==
    LET k == IndexOfId(list, i)
    IN IF k = 0 THEN list
       ELSE [list EXCEPT ![k].status = "downloading", ![k].pid = p]

\* startTranscode: the record found by id becomes "transcoding" with the
\* child's pid and a fresh StartTime
MarkTranscoding(list, i, p, now) ==
    LET k == IndexOfId(list, i)
    IN [list EXCEPT ![k].status = "transcoding", ![k].pid = p,
                    ![k].startTime = now]

\* CancelDownload / CancelTranscode: the status becomes "cancelled"; the pid
\* stays in the record
MarkCancelled(list, i) ==
    LET k == IndexOfId(list, i)
    IN IF k = 0 THEN list ELSE [list EXCEPT ![k].status = "cancelled"]

\* the monitor of a download found the record cancelled (or paused) after the
\* child's exit: it writes nothing
DownloadExitSkips(list, i) ==
    LET k == IndexOfId(list, i)
    IN k # 0 /\ list[k].status \in {"cancelled", "paused"}

\* exit bookkeeping of a download: a failed Wait puts the task back to
\* "waiting" without its pid, a clean exit makes it "completed"
DownloadExit(list, i, clean) ==
    LET k == IndexOfId(list, i)
    IN IF k = 0 THEN list
       ELSE IF clean THEN [list EXCEPT ![k].status = "completed"]
       ELSE [list EXCEPT ![k].status = "waiting", ![k].pid = 0]

\* the number 1.0 in hundredths
Full == 100

\* exit bookkeeping of a transcode: the status is overwritten with the exit
\* outcome, whatever it was
TranscodeExit(list, i, clean) ==
    LET k == IndexOfId(list, i)
    IN IF k = 0 THEN list
       ELSE IF clean
            THEN [list EXCEPT ![k].status = "completed", ![k].progress = Full]
       ELSE [list EXCEPT ![k].status = "failed",
                         ![k].error = IF list[k].error = "" THEN "exit status 1"
                                      ELSE list[k].error]

\* percentage of a parsed download progress line: downloaded / total * 100
DownloadPercentage(downloaded, total) ==
    IF total > 0 THEN (downloaded * 100 * Full) \div total ELSE 0

\* the monitor's update of a download record from one progress line
DownloadProgress(list, i, downloaded, total) ==
    LET k == IndexOfId(list, i)
    IN IF k = 0 THEN list
       ELSE [list EXCEPT ![k].progress = DownloadPercentage(downloaded, total)]

\* updateTranscodeProgress
TranscodeProgress(list, i, progress, errorMsg) ==
    LET k == IndexOfId(list, i)
    IN IF k = 0 THEN list
       ELSE [list EXCEPT ![k].progress = IF progress >= 0 THEN progress ELSE @,
                         ![k].error = IF errorMsg # "" THEN errorMsg ELSE @]

\* the (downloaded, total) pairs of the progress lines a download child prints
DownloadLines == {<<1, 2>>, <<2, 2>>}

\* what the stream readers of a transcode child pass to updateTranscodeProgress
TranscodeLines == {<<50, "">>, <<0, "Error">>}

-----------------------------------------------------------------------------
\* Launching a child (exec.Cmd.Start): the new process gets the next pid.
Spawned(t, d) == Append(procs, [id |-> thr[t].id, d |-> d, state |-> "running"])

NewPid == Len(procs) + 1

CanSpawn == Len(procs) < MaxSpawns

\* the threads that "go func()" / "go a.monitorTranscodeProgress" start for
\* child p of task i: the download monitor reads lines and then waits; the
\* transcode monitor waits while a separate reader consumes the streams
MonitorThread(d, i) ==
    [Idle EXCEPT !.op = "monitor", !.d = d, !.id = i,
                 !.pc = IF d = "download" THEN "scan" ELSE "wait"]

ReaderThread(d, i) == [Idle EXCEPT !.op = "reader", !.d = d, !.id = i, !.pc = "scan"]

WithMonitors(t, d, p, r) ==
    [x \in Threads |->
        IF x = t THEN Return(t, r)
        ELSE IF x = p THEN MonitorThread(d, thr[t].id)
        ELSE IF x = MaxSpawns + p /\ d = "transcode" THEN ReaderThread(d, thr[t].id)
        ELSE thr[x]]

-----------------------------------------------------------------------------
\* The caller operations.  Each is entered from the idle UI thread with its
\* first access to the store.

StartPc(d) == IF d = "download" THEN "sd" ELSE "st"

\* the caller's operations so far: the operation, the task id and what the
\* operation found (an active task, for enqueue and resume; the task active,
\* for cancel)
Logged(op, i, found) == [hist EXCEPT !.log = Append(@, [op |-> op, id |-> i, has |-> found])]

\* DownloadTorrentFiles / AddTranscodeTaskWithParams up to the append: the id
\* is the clock's second, an unreadable or unparseable file counts as empty
EnqueueRead ==
    /\ thr[UI].pc = "idle"
    /\ enq < MaxTasks /\ calls < MaxCalls
    /\ \E now \in Nows :
        LET list == IF ReadOk(dom) THEN ReadList(dom) ELSE <<>>
        IN /\ clock' = now
           /\ thr' = [thr EXCEPT ![UI] =
                        [Idle EXCEPT !.op = "enqueue", !.pc = "enq_w", !.d = dom,
                                     !.id = now, !.has = HasActive(list, dom),
                                     !.snap = Append(list, NewTask(enq + 1, now, now))]]
           /\ hist' = Logged("enqueue", now, HasActive(list, dom))
    /\ enq' = enq + 1
    /\ calls' = calls + 1
    /\ UNCHANGED <<enc, dom, store, procs, toolOk, lines, runs>>

\* ... the write of the extended list, then the start of the new task
\* (download) or of the scheduler (transcode) if the list read had no active
\* task
EnqueueWrite ==
    /\ thr[UI].pc = "enq_w"
    /\ LET d == thr[UI].d
       IN IF ~WriteOk(d)
          THEN /\ thr' = [thr EXCEPT ![UI] = Return(UI, "err")]
               /\ UNCHANGED store
          ELSE /\ store' = Written(d, thr[UI].snap)
               /\ thr' = [thr EXCEPT ![UI] =
                            IF thr[UI].has THEN Return(UI, "ok")
                            ELSE [@ EXCEPT !.snap = <<>>,
                                           !.pc = IF d = "download" THEN "sd" ELSE "sn"]]
    /\ UNCHANGED <<enc, dom, procs, clock, toolOk, enq, calls, lines, runs, hist>>

\* process.Kill() on the pid found in the record
Killed(list, k, d) ==
    IF /\ k # 0
       /\ list[k].status = ActiveStatus(d)
       /\ Running(list[k].pid)
    THEN [procs EXCEPT ![list[k].pid].state = "killed"]
    ELSE procs

\* CancelDownload / CancelTranscode up to the kill
CancelRead(i) ==
    /\ thr[UI].pc = "idle"
    /\ calls < MaxCalls
    /\ calls' = calls + 1
    /\ LET d == dom
           list == ReadList(d)
           k == IndexOfId(list, i)
       IN IF ~ReadOk(d) \/ k = 0
          THEN /\ thr' = [thr EXCEPT ![UI] = [Return(UI, "err") EXCEPT !.d = d]]
               /\ hist' = Logged("cancel", i, FALSE)
               /\ UNCHANGED procs
          ELSE /\ procs' = Killed(list, k, d)
               /\ thr' = [thr EXCEPT ![UI] =
                            [Idle EXCEPT !.op = "cancel", !.pc = "cn_w", !.d = d,
                                         !.id = i, !.res = list[k].status,
                                         !.snap = MarkCancelled(list, i)]]
               /\ hist' = Logged("cancel", i, list[k].status = ActiveStatus(d))
    /\ UNCHANGED <<enc, dom, store, clock, toolOk, enq, lines, runs>>

\* the record a cancel in flight has marked, and the status it found
CancelledUid(t) == thr[t].snap[IndexOfId(thr[t].snap, thr[t].id)].uid

\* ... and the write of the list with the record cancelled
CancelWrite ==
    /\ thr[UI].pc = "cn_w"
    /\ LET d == thr[UI].d
       IN IF ~WriteOk(d)
          THEN /\ thr' = [thr EXCEPT ![UI] = Return(UI, "err")]
               /\ UNCHANGED <<store, hist>>
          ELSE /\ store' = Written(d, thr[UI].snap)
               /\ thr' = [thr EXCEPT ![UI] = Return(UI, "ok")]
               /\ hist' = [hist EXCEPT
                            !.cancelled = @ \cup {<<CancelledUid(UI), thr[UI].res>>}]
    /\ UNCHANGED <<enc, dom, procs, clock, toolOk, enq, calls, lines, runs>>

\* the first record that has the id and is waiting, 0 if none
\* a StartWaitingTask that would take the record by its id alone
WaitingTargetAnyStatus(list, i) == IndexOfId(list, i)

\* "taskId == id && status == waiting", the first such record; 0 if none
WaitingTarget(list, i) ==
    FirstOf({k \in Indices(list) : list[k].id = i /\ list[k].status = "waiting"})

\* StartWaitingTask up to the call of startDownload
ResumeRead(i) ==
    /\ thr[UI].pc = "idle"
    /\ calls < MaxCalls
    /\ calls' = calls + 1
    /\ dom = "download"
    /\ LET list == ReadList(dom)
       IN /\ thr' = [thr EXCEPT ![UI] =
                    IF \/ ~ReadOk(dom)
                       \/ HasActive(list, dom)
                       \/ WaitingTarget(list, i) = 0
                    THEN [Return(UI, "err") EXCEPT !.d = dom]
                    ELSE [Idle EXCEPT !.op = "resume", !.pc = "sd", !.d = dom, !.id = i]]
          /\ hist' = Logged("resume", i, HasActive(list, dom))
    /\ UNCHANGED <<enc, dom, store, procs, clock, toolOk, enq, lines, runs>>

-----------------------------------------------------------------------------
\* Starting a task and the scheduler, run by the caller's thread or by a
\* monitor after its child's exit.

\* startDownload up to the modification of the list read after the launch
StartDownload(t) ==
    /\ thr[t].pc = "sd"
    /\ IF ~toolOk["download"]
       THEN /\ thr' = [thr EXCEPT ![t] = Return(t, "err")]
            /\ UNCHANGED procs
       ELSE /\ CanSpawn
            /\ procs' = Spawned(t, "download")
            /\ thr' = [thr EXCEPT ![t] =
                        IF ~ReadOk("download") THEN Return(t, "err")
                        ELSE [@ EXCEPT !.pc = "sd_w", !.pid = NewPid,
                                       !.snap = MarkDownloading(ReadList("download"),
                                                                thr[t].id, NewPid)]]
    /\ UNCHANGED <<enc, dom, store, clock, toolOk, enq, calls, lines, runs, hist>>

\* startTranscode up to the modification of the list it read: the list is
\* read before the probes and the launch, the task is found by id.  The new
\* StartTime is the second of the last enqueue or later; no handler of the
\* running application reads it, so the second of the last enqueue stands
\* for all of them here (startup recovery, which reads it, is checked on
\* stores with every order of start times).
StartTranscode(t) ==
    /\ thr[t].pc = "st"
    /\ LET list == ReadList("transcode")
       IN IF ~ReadOk("transcode") \/ IndexOfId(list, thr[t].id) = 0
             \/ ~toolOk["transcode"]
          THEN /\ thr' = [thr EXCEPT ![t] = Return(t, "err")]
               /\ UNCHANGED procs
          ELSE /\ CanSpawn
               /\ procs' = Spawned(t, "transcode")
               /\ thr' = [thr EXCEPT ![t] =
                            [@ EXCEPT !.pc = "st_w", !.pid = NewPid,
                                      !.snap = MarkTranscoding(list, thr[t].id,
                                                               NewPid, clock)]]
    /\ UNCHANGED <<enc, dom, store, clock, toolOk, enq, calls, lines, runs, hist>>

\* the write of the list with the task active, and the start of the
\* monitoring goroutines
StartWrite(t) ==
    /\ thr[t].pc \in {"sd_w", "st_w"}
    /\ LET d == thr[t].d
       IN IF ~WriteOk(d)
          THEN /\ thr' = [thr EXCEPT ![t] = Return(t, "err")]
               /\ UNCHANGED store
          ELSE /\ store' = Written(d, thr[t].snap)
               /\ thr' = WithMonitors(t, d, thr[t].pid, "ok")
    /\ UNCHANGED <<enc, dom, procs, clock, toolOk, enq, calls, lines, runs, hist>>

\* startNextWaitingTask / startNextTranscodeTask: nothing if a task is
\* active, else the first waiting record of the list is started
StartNext(t) ==
    /\ thr[t].pc = "sn"
    /\ LET d == thr[t].d
           list == ReadList(d)
           w == FirstWaiting(list)
       IN thr' = [thr EXCEPT ![t] =
                    IF ~ReadOk(d) THEN Return(t, "err")
                    ELSE IF HasActive(list, d) \/ w = 0 THEN Return(t, "ok")
                    ELSE [@ EXCEPT !.pc = StartPc(d), !.id = list[w].id, !.snap = <<>>]]
    /\ UNCHANGED <<enc, dom, store, procs, clock, toolOk, enq, calls, lines, runs, hist>>

-----------------------------------------------------------------------------
\* The monitoring goroutines of child p.

\* the download monitor parsed a progress line: read of the file and update
\* of the record in memory
DownloadLine(p) ==
    /\ thr[p].op = "monitor" /\ thr[p].pc = "scan"
    /\ lines < MaxLines
    /\ lines' = lines + 1
    /\ \E ln \in DownloadLines :
        thr' = [thr EXCEPT ![p] =
                  IF ~ReadOk("download") THEN @
                  ELSE [@ EXCEPT !.pc = "up_w",
                                 !.snap = DownloadProgress(ReadList("download"),
                                                           thr[p].id, ln[1], ln[2])]]
    /\ UNCHANGED <<enc, dom, store, procs, clock, toolOk, enq, calls, runs, hist>>

\* a stream reader of the transcode child calls updateTranscodeProgress: read
\* of the file and update of the record in memory
TranscodeLine(p) ==
    /\ thr[MaxSpawns + p].op = "reader" /\ thr[MaxSpawns + p].pc = "scan"
    /\ lines < MaxLines
    /\ lines' = lines + 1
    /\ \E ln \in TranscodeLines :
        thr' = [thr EXCEPT ![MaxSpawns + p] =
                  IF ~ReadOk("transcode") THEN @
                  ELSE [@ EXCEPT !.pc = "up_w",
                                 !.snap = TranscodeProgress(ReadList("transcode"),
                                                            thr[p].id, ln[1], ln[2])]]
    /\ UNCHANGED <<enc, dom, store, procs, clock, toolOk, enq, calls, runs, hist>>

\* the write that ends a progress update
UpdateWrite(t) ==
    /\ thr[t].pc = "up_w"
    /\ store' = Written(thr[t].d, thr[t].snap)
    /\ thr' = [thr EXCEPT ![t] = [@ EXCEPT !.pc = "scan", !.snap = <<>>]]
    /\ UNCHANGED <<enc, dom, procs, clock, toolOk, enq, calls, lines, runs, hist>>

\* cmd.Wait() has returned: read of the file and exit bookkeeping in memory.
\* The download monitor gets there when its scanner meets the end of the
\* output, the transcode monitor waits from the beginning.
\* The child ends by itself at any time, cleanly or with an error; a kill may
\* come too late for a child that has just ended cleanly.
ExitRead(p) ==
    /\ thr[p].op = "monitor"
    /\ thr[p].pc = IF thr[p].d = "download" THEN "scan" ELSE "wait"
    /\ \E clean \in BOOLEAN :
        LET d == thr[p].d
            list == ReadList(d)
        IN /\ procs' = [procs EXCEPT ![p].state = IF clean THEN "done" ELSE "failed"]
           /\ thr' = [thr EXCEPT ![p] =
                    IF ~ReadOk(d) THEN Return(p, "err")
                    ELSE IF d = "download" /\ DownloadExitSkips(list, thr[p].id)
                    THEN [@ EXCEPT !.pc = "sn"]
                    ELSE [@ EXCEPT !.pc = "ex_w",
                                   !.snap = IF d = "download"
                                            THEN DownloadExit(list, thr[p].id, clean)
                                            ELSE TranscodeExit(list, thr[p].id, clean)]]
    /\ UNCHANGED <<enc, dom, store, clock, toolOk, enq, calls, lines, runs, hist>>

\* the write of the exit bookkeeping; the scheduler follows
ExitWrite(p) ==
    /\ thr[p].pc = "ex_w"
    /\ IF ~WriteOk(thr[p].d)
       THEN /\ thr' = [thr EXCEPT ![p] = Return(p, "err")]
            /\ UNCHANGED store
       ELSE /\ store' = Written(thr[p].d, thr[p].snap)
            /\ thr' = [thr EXCEPT ![p] = [@ EXCEPT !.pc = "sn", !.snap = <<>>]]
    /\ UNCHANGED <<enc, dom, procs, clock, toolOk, enq, calls, lines, runs, hist>>

-----------------------------------------------------------------------------
\* The running application: the stores exist and are empty (startup has
\* created them), no child runs, the UI is idle.

EmptyStore == [fstate |-> "ok", tasks |-> <<>>]

NoHist == [log |-> <<>>, cancelled |-> {}, before |-> <<>>, first |-> <<>>]

\* no transcode request is followed
NoEnc == [phase |-> "none"]

Init ==
    /\ dom \in Domains
    /\ store = [d \in Domains |-> EmptyStore]
    /\ procs = <<>>
    /\ thr = [t \in Threads |-> Idle]
    /\ clock = 0
    /\ toolOk \in [Domains -> BOOLEAN] /\ \A d \in Domains \ {dom} : toolOk[d]
    /\ enq = 0
    /\ calls = 0
    /\ lines = 0
    /\ runs = 0
    /\ hist = NoHist
    /\ enc = NoEnc

KnownIds == {0} \cup {store[dom].tasks[k].id : k \in Indices(store[dom].tasks)}

Next ==
    \/ EnqueueRead
    \/ EnqueueWrite
    \/ \E i \in KnownIds : CancelRead(i)
    \/ CancelWrite
    \/ \E i \in KnownIds : ResumeRead(i)
    \/ \E t \in Threads : StartDownload(t)
    \/ \E t \in Threads : StartTranscode(t)
    \/ \E t \in Threads : StartWrite(t)
    \/ \E t \in Threads : StartNext(t)
    \/ \E p \in Monitors : DownloadLine(p)
    \/ \E p \in Monitors : TranscodeLine(p)
    \/ \E t \in Threads : UpdateWrite(t)
    \/ \E p \in Monitors : ExitRead(p)
    \/ \E p \in Monitors : ExitWrite(p)

Spec == Init /\ [][Next]_vars

-----------------------------------------------------------------------------
\* Startup recovery (App.startup), run by the main thread before the UI can
\* call anything.

\* every record persisted as active becomes waiting and loses its pid
Demote(list, d) ==
    [k \in Indices(list) |->
        IF list[k].status = ActiveStatus(d)
        THEN [list[k] EXCEPT !.status = "waiting", !.pid = 0]
        ELSE list[k]]

\* the waiting record with the earliest start time, the first of them in
\* list order; 0 if none is waiting
EarliestWaiting(list) ==
    LET W == {k \in Indices(list) : list[k].status = "waiting"}
    IN IF W = {} THEN 0
       ELSE CHOOSE k \in W :
              \A j \in W : \/ list[j].startTime > list[k].startTime
                           \/ list[j].startTime = list[k].startTime /\ j >= k

StartupDone == [Idle EXCEPT !.op = "startup", !.pc = "su_done", !.d = "transcode"]

\* the download part: a missing file is created empty and startup returns;
\* an unreadable or unparseable file makes startup return; else the active
\* records are demoted and written, and the earliest waiting task is started
StartupDownload ==
    /\ thr[UI].op = "startup" /\ thr[UI].pc = "su_dl"
    /\ LET f == store["download"].fstate
           list == Demote(ReadList("download"), "download")
           e == EarliestWaiting(list)
       IN IF f # "ok"
          THEN /\ store' = IF f = "missing" THEN Written("download", <<>>) ELSE store
               /\ thr' = [thr EXCEPT ![UI] = StartupDone]
          ELSE /\ store' = IF HasActive(ReadList("download"), "download")
                           THEN Written("download", list) ELSE store
               /\ thr' = [thr EXCEPT ![UI] =
                            IF e = 0 THEN Return(UI, "ok")
                            ELSE [@ EXCEPT !.pc = "sd", !.id = list[e].id]]
    /\ UNCHANGED <<enc, dom, procs, clock, toolOk, enq, calls, lines, runs, hist>>

\* the transcode part, reached when the download part did not return
StartupTranscode ==
    /\ thr[UI].op = "startup" /\ thr[UI].pc = "su_tc"
    /\ LET f == store["transcode"].fstate
           list == Demote(ReadList("transcode"), "transcode")
           e == EarliestWaiting(list)
       IN IF f # "ok"
          THEN /\ store' = IF f = "missing" THEN Written("transcode", <<>>) ELSE store
               /\ thr' = [thr EXCEPT ![UI] = StartupDone]
          ELSE /\ store' = IF HasActive(ReadList("transcode"), "transcode")
                           THEN Written("transcode", list) ELSE store
               /\ thr' = [thr EXCEPT ![UI] =
                            IF e = 0 THEN StartupDone
                            ELSE [@ EXCEPT !.pc = "st", !.id = list[e].id]]
    /\ UNCHANGED <<enc, dom, procs, clock, toolOk, enq, calls, lines, runs, hist>>

\* The application is killed and started again: its goroutines are gone, the
\* children it launched are no longer its own, the stores are as they were.
Restart ==
    /\ thr[UI].pc = "su_done"
    /\ runs < MaxRuns
    /\ runs' = runs + 1
    /\ thr' = [t \in Threads |->
                 IF t = UI THEN [Idle EXCEPT !.op = "startup", !.pc = "su_dl"]
                 ELSE Idle]
    /\ procs' = <<>>
    /\ hist' = [hist EXCEPT !.first = store]
    /\ UNCHANGED <<enc, dom, store, clock, toolOk, enq, calls, lines>>

\* The stores a previous run can have left: up to MaxStored records per
\* domain with distinct ids, any status (a download is never "failed"),
\* a pid exactly on the active records; the start times of downloads follow
\* the list order, those of transcodes need not (a start rewrites them).
StoredTimes == {1, 2}

StoredStatus(d) ==
    IF d = "download" THEN {"waiting", "downloading", "completed", "cancelled"}
    ELSE {"waiting", "transcoding", "completed", "failed"}

StoredTask(d, k, st, tm) ==
    [uid |-> k, id |-> k, status |-> st,
     pid |-> IF st = ActiveStatus(d) THEN OrphanPid ELSE 0,
     startTime |-> tm, progress |-> 0, error |-> ""]

StoredLists(d) ==
    UNION {
      { [k \in 1..n |-> StoredTask(d, k, sts[k], tms[k])] :
          sts \in [1..n -> StoredStatus(d)],
          tms \in { x \in [1..n -> StoredTimes] :
                      d = "download" => \A k \in 1..(n - 1) : x[k] <= x[k + 1] } }
      : n \in 0..MaxStored }

StoredFiles(d) ==
    { [fstate |-> "ok", tasks |-> l] : l \in StoredLists(d) }
    \cup { [fstate |-> f, tasks |-> <<>>] : f \in {"missing", "unreadable", "corrupt"} }

LastStoredTime == CHOOSE m \in StoredTimes : \A x \in StoredTimes : x <= m

InitRecovery ==
    /\ dom = "download"
    /\ store \in [Domains -> UNION {StoredFiles(d) : d \in Domains}]
    /\ \A d \in Domains : store[d] \in StoredFiles(d)
    /\ procs = <<>>
    /\ thr = [t \in Threads |->
                IF t = UI THEN [Idle EXCEPT !.op = "startup", !.pc = "su_dl"]
                ELSE Idle]
    /\ clock = LastStoredTime
    /\ toolOk \in [Domains -> BOOLEAN]
    /\ enq = 0
    /\ calls = 0
    /\ lines = 0
    /\ runs = 1
    /\ hist = [NoHist EXCEPT !.before = store]
    /\ enc = NoEnc

NextRecovery ==
    \/ StartupDownload
    \/ StartupTranscode
    \/ StartDownload(UI)
    \/ StartTranscode(UI)
    \/ StartWrite(UI)
    \/ Restart

SpecRecovery == InitRecovery /\ [][NextRecovery]_vars

-----------------------------------------------------------------------------
\* Properties.

Tasks(d) == store[d].tasks

ActiveTasks(d) == {k \in Indices(Tasks(d)) : Tasks(d)[k].status = ActiveStatus(d)}

\* the status of the record enqueued as number u, "" if the store has no such
\* record
StatusOf(d, u) ==
    LET k == FirstOf({j \in Indices(Tasks(d)) : Tasks(d)[j].uid = u})
    IN IF k = 0 THEN "" ELSE Tasks(d)[k].status

Quiet == \A t \in Threads : thr[t].pc \in {"idle", "done"}

\* C1: in each domain the persisted store never holds more than one task
\* with the active status (downloading / transcoding).
C1_AtMostOneActive == \A d \in Domains : Cardinality(ActiveTasks(d)) <= 1

\* the records whose cancel has been written, having found status st
CancelledHaving(st) == {c[1] : c \in {x \in hist.cancelled : x[2] = st}}

\* C2: after the cancel of an active task the persisted status of the task
\* is cancelled once every handler and monitor has finished.
C2_CancelActiveEndsCancelled ==
    Quiet => \A u \in CancelledHaving(ActiveStatus(dom)) : StatusOf(dom, u) = "cancelled"

\* C3: a task cancelled while waiting is never active afterwards.
C3_CancelledWaitingNeverActive ==
    \A u \in CancelledHaving("waiting") : StatusOf(dom, u) # ActiveStatus(dom)


\* the children launched for task id i
Launches(i) == {p \in DOMAIN procs : procs[p].id = i}

\* the step is the launch of a child by thread t
Launch(t) ==
    /\ thr[t].pc \in {"sd", "st"}
    /\ Len(procs') = Len(procs) + 1
    /\ thr'[t] # thr[t]

\* the step is the write by which thread t persists the task it launched
Activation(t) ==
    /\ thr[t].pc \in {"sd_w", "st_w"}
    /\ thr'[t] # thr[t]
    /\ store' # store

\* C4: an enqueue persists its new task last in the list with status waiting;
\* when the enqueue found no active task and has launched a task, the store
\* holds exactly one active task; and a task is persisted as active only
\* when no other task of the domain is persisted as active.
C4_EnqueueStartsOneOrWaits ==
    [][/\ (thr[UI].pc = "enq_w" /\ thr'[UI] # thr[UI] /\ store' # store) =>
            LET list == store'[dom].tasks
            IN /\ list # <<>>
               /\ list[Len(list)].uid = enq
               /\ list[Len(list)].status = "waiting"
       /\ (thr[UI].op = "enqueue" /\ Activation(UI)) =>
            Cardinality(ActiveTasks(dom))' = 1
       /\ \A u, v \in 1..MaxTasks :
            ~ /\ u # v
              /\ StatusOf(dom, u) = "waiting"
              /\ StatusOf(dom, u)' = ActiveStatus(dom)
              /\ StatusOf(dom, v) = ActiveStatus(dom)
              /\ StatusOf(dom, v)' = ActiveStatus(dom)
      ]_vars

\* the caller has enqueued A with no task active, then B while A was active,
\* under different ids, and nothing else but the n - 2 operations that follow
ScenarioAB(n) ==
    /\ dom = "download" /\ toolOk["download"]
    /\ Len(hist.log) = n /\ n >= 2
    /\ hist.log[1].op = "enqueue" /\ ~hist.log[1].has
    /\ hist.log[2].op = "enqueue" /\ hist.log[2].has
    /\ hist.log[1].id # hist.log[2].id

\* ... and has then cancelled A, finding it active
ScenarioCancelA ==
    /\ ScenarioAB(3)
    /\ hist.log[3] = [op |-> "cancel", id |-> hist.log[1].id, has |-> TRUE]

\* C5: after enqueue A and enqueue B, while the child of A runs, A is
\* persisted as downloading and B as waiting; after the cancel of A no second
\* child is launched for A, and once every handler and monitor has finished
\* a child has been launched for B.
C5_CancelPromotesNext ==
    /\ (ScenarioAB(2) /\ thr[UI].pc = "idle" /\ thr[1].pc = "scan") =>
            /\ StatusOf(dom, 1) = "downloading"
            /\ StatusOf(dom, 2) = "waiting"
    /\ ScenarioCancelA => Cardinality(Launches(hist.log[1].id)) <= 1
    /\ (ScenarioCancelA /\ Quiet) => Launches(hist.log[2].id) # {}

\* the waiting records of domain d that were enqueued earliest
EarliestEnqueued(d) ==
    {k \in Indices(Tasks(d)) :
        /\ Tasks(d)[k].status = "waiting"
        /\ \A j \in Indices(Tasks(d)) :
              Tasks(d)[j].status = "waiting" => Tasks(d)[j].uid >= Tasks(d)[k].uid}

\* C6: a child launched by an enqueue or by a monitor's scheduler is the
\* child of the earliest-enqueued waiting task of the store, and a scheduler
\* that reads a store with an active task starts nothing and writes nothing.
C6_AutomaticStartsAreFifo ==
    [][\A t \in Threads :
        /\ (Launch(t) /\ thr[t].op # "resume") =>
              \E k \in EarliestEnqueued(dom) : Tasks(dom)[k].id = thr[t].id
        /\ (thr[t].pc = "sn" /\ thr'[t] # thr[t] /\ HasActive(Tasks(dom), dom)) =>
              /\ thr'[t].pc \notin {"sd", "st"}
              /\ UNCHANGED <<store, procs>>
      ]_vars

\* the n-th run of startup recovery has returned
RunDone(n) == thr[UI].op = "startup" /\ thr[UI].pc = "su_done" /\ runs = n

\* the records of list a that carry the pid of a child launched by this run
StartedIn(a) == {k \in Indices(a) : a[k].pid \in DOMAIN procs}

\* what one run of recovery owes to a store it found as the list b and left
\* as the list a: nothing removed, every record found active is waiting
\* without pid unless it is the one started, the other records untouched,
\* and the started record is one with the earliest start time among those
\* found waiting or active, if there is any
Recovered(d, b, a) ==
    LET S == StartedIn(a)
        W == {k \in Indices(b) : b[k].status \in {"waiting", ActiveStatus(d)}}
    IN /\ Len(a) = Len(b)
       /\ \A k \in Indices(b) :
            /\ a[k].uid = b[k].uid
            /\ (k \notin S /\ b[k].status = ActiveStatus(d)) =>
                    a[k] = [b[k] EXCEPT !.status = "waiting", !.pid = 0]
            /\ (k \notin S /\ b[k].status # ActiveStatus(d)) => a[k] = b[k]
       /\ W # {} =>
            \E k \in S \cap W :
                /\ S = {k}
                /\ a[k].status = ActiveStatus(d)
                /\ \A j \in W : b[j].startTime >= b[k].startTime

\* C7: when a run of startup recovery has returned, every store that held a
\* task list is recovered (the launch tools being present).
C7_RecoveryDemotesAndStartsEarliest ==
    RunDone(1) =>
        \A d \in Domains :
            (hist.before[d].fstate = "ok" /\ toolOk[d]) =>
                Recovered(d, hist.before[d].tasks, store[d].tasks)

\* C8: when a run of startup recovery has returned, the transcode store is
\* recovered whatever the download store was: missing, unreadable,
\* unparseable, or with a task that could not be launched.
C8_StoresRecoveredIndependently ==
    (RunDone(1) /\ hist.before["transcode"].fstate = "ok" /\ toolOk["transcode"]) =>
        /\ ~HasActive(Demote(store["transcode"].tasks, "transcode"), "transcode")
        /\ Recovered("transcode", hist.before["transcode"].tasks, store["transcode"].tasks)

\* the statuses persisted in the two stores
Statuses(st) == [d \in Domains |-> [k \in Indices(st[d].tasks) |-> st[d].tasks[k].status]]

\* C9: a second run of startup recovery, with no child activity since the
\* first, leaves the statuses the first run left (both stores holding a task
\* list and the launch tools being present).
C9_RecoveryIdempotent ==
    (RunDone(2) /\ \A d \in Domains : hist.before[d].fstate = "ok" /\ toolOk[d]) =>
        Statuses(store) = Statuses(hist.first)

\* the step is a call of StartWaitingTask for task id i
ResumeCall(i) ==
    /\ thr[UI].pc = "idle"
    /\ hist'.log = Append(hist.log, [op |-> "resume", id |-> i,
                                     has |-> HasActive(Tasks(dom), dom)])

\* the store holds a waiting record of task id i
WaitingIn(list, i) == \E k \in Indices(list) : list[k].id = i /\ list[k].status = "waiting"

\* C10: a call of StartWaitingTask returns an error, launches nothing and
\* writes nothing when the store holds an active download or no waiting
\* record of the named task; otherwise the call goes on to launch one child,
\* the child of the named task, marks as downloading under the pid of that
\* child the record of the named task in the list it reads after the launch,
\* and no record of another task, and persists that list.
C10_ResumeStartsNamedOrRefuses ==
    [][/\ \A i \in KnownIds :
            ResumeCall(i) =>
                IF HasActive(Tasks(dom), dom) \/ ~WaitingIn(Tasks(dom), i)
                THEN /\ thr'[UI].pc = "idle" /\ thr'[UI].res = "err"
                     /\ UNCHANGED <<store, procs>>
                ELSE /\ thr'[UI].pc = "sd" /\ thr'[UI].id = i
                     /\ UNCHANGED <<store, procs>>
       /\ (thr[UI].op = "resume" /\ Launch(UI)) =>
            LET named == hist.log[Len(hist.log)].id
                read == Tasks(dom)
                marked == thr'[UI].snap
            IN /\ procs'[Len(procs')].id = named
               /\ thr'[UI].pid = Len(procs')
               /\ Len(marked) = Len(read)
               /\ (\E k \in Indices(read) : read[k].id = named) =>
                     \E k \in Indices(read) :
                        /\ read[k].id = named
                        /\ marked[k].status = "downloading"
                        /\ marked[k].pid = Len(procs')
               /\ \A k \in Indices(read) :
                     read[k].id # named => marked[k] = read[k]
       /\ (thr[UI].op = "resume" /\ Activation(UI)) =>
            Tasks(dom)' = thr[UI].snap
      ]_vars

\* StartWaitingTask has started the later-enqueued of two waiting tasks: the
\* earlier one is still waiting
C10_Witness ==
    /\ hist.log # <<>>
    /\ hist.log[Len(hist.log)].op = "resume" /\ ~hist.log[Len(hist.log)].has
    /\ thr[UI].pc = "idle" /\ thr[UI].res = "ok"
    /\ \E k \in Indices(Tasks(dom)) :
        /\ Tasks(dom)[k].id = hist.log[Len(hist.log)].id
        /\ Tasks(dom)[k].status = "downloading"
        /\ \E j \in Indices(Tasks(dom)) :
              /\ Tasks(dom)[j].uid < Tasks(dom)[k].uid
              /\ Tasks(dom)[j].status = "waiting"

\* the statuses that end a task
Terminal == {"completed", "failed", "cancelled"}

\* C11: a cancel that finds the task completed, failed or cancelled kills no
\* process, and its write leaves the persisted status of the task as the
\* cancel found it.
C11_CancelIdempotentOnTerminal ==
    [][(thr[UI].pc = "cn_w" /\ thr'[UI] # thr[UI] /\ thr[UI].res \in Terminal) =>
            /\ UNCHANGED procs
            /\ \A u \in {CancelledUid(UI)} : StatusOf(dom, u)' = thr[UI].res
      ]_vars

\* the caller has asked for the cancel of task id i
CancelRequested(i) ==
    \E n \in DOMAIN hist.log : hist.log[n].op = "cancel" /\ hist.log[n].id = i

\* the step is the write of the exit bookkeeping by the monitor of child p,
\* for a task no cancel was requested for and whose record the monitor found
ExitBookkeeping(p) ==
    /\ thr[p].op = "monitor" /\ thr[p].pc = "ex_w"
    /\ thr'[p] # thr[p]
    /\ store' # store
    /\ ~CancelRequested(thr[p].id)
    /\ IndexOfId(thr[p].snap, thr[p].id) # 0

\* the record of its task that the monitor of child p is about to write
Booked(p) == thr[p].snap[IndexOfId(thr[p].snap, thr[p].id)]

\* C12: the exit bookkeeping of a child that ended with an error, no cancel
\* having been requested, persists the task as failed with a non-empty error.
C12_AbnormalExitFails ==
    [][\A p \in Monitors :
        (ExitBookkeeping(p) /\ procs[p].state = "failed") =>
            \E k \in Indices(Tasks(thr[p].d)') :
                /\ Tasks(thr[p].d)'[k].uid = Booked(p).uid
                /\ Tasks(thr[p].d)'[k].status = "failed"
                /\ Tasks(thr[p].d)'[k].error # ""
      ]_vars

\* the step is a start by thread t that fails to launch the child of a task
\* the store holds: the executable is missing
LaunchFailure(t) ==
    /\ thr[t].pc \in {"sd", "st"}
    /\ thr'[t] # thr[t]
    /\ ~toolOk[thr[t].d]
    /\ IndexOfId(Tasks(thr[t].d), thr[t].id) # 0

\* C13: when a start fails to launch the child, the task is persisted as
\* failed with a non-empty error.
C13_LaunchFailureFails ==
    [][\A t \in Threads : \A d \in Domains : \A i \in KnownIds :
        (LaunchFailure(t) /\ thr[t].d = d /\ thr[t].id = i) =>
            LET k == IndexOfId(store'[d].tasks, i)
            IN /\ k # 0
               /\ store'[d].tasks[k].status = "failed"
               /\ store'[d].tasks[k].error # ""
      ]_vars

\* a child of task id i has ended with an error
ExitedAbnormally(i) == \E p \in Launches(i) : procs[p].state = "failed"

\* C14: a child is launched for a task one of whose children has ended with
\* an error only by a caller's enqueue or resume-waiting, never by the
\* scheduler that runs after a child's exit.
C14_NoAutomaticRetry ==
    [][\A t \in Threads :
        (Launch(t) /\ thr[t].op \notin {"enqueue", "resume"}) =>
            ~ExitedAbnormally(thr[t].id)
      ]_vars

\* C15: the exit bookkeeping of a child that ended with outcome zero, no
\* cancel having been requested, persists the task as completed with its
\* progress at 1.0.
C15_CleanExitCompletesAtFull ==
    [][\A p \in Monitors :
        (ExitBookkeeping(p) /\ procs[p].state = "done") =>
            \E k \in Indices(Tasks(thr[p].d)') :
                /\ Tasks(thr[p].d)'[k].uid = Booked(p).uid
                /\ Tasks(thr[p].d)'[k].status = "completed"
                /\ Tasks(thr[p].d)'[k].progress = Full
      ]_vars

\* C16: in every persisted store state a record carries a pid if and only if
\* its status is the active one.
C16_PidIffActive ==
    \A d \in Domains : \A k \in Indices(Tasks(d)) :
        Tasks(d)[k].pid # 0 <=> Tasks(d)[k].status = ActiveStatus(d)

\* C17: no two records of a store share an id, and the record of an enqueue
\* keeps its id from one store state to the next.
C17_IdsUniqueAndStable ==
    [][/\ \A d \in Domains : \A j, k \in Indices(Tasks(d)') :
            Tasks(d)'[j].id = Tasks(d)'[k].id => j = k
       /\ \A d \in Domains : \A j \in Indices(Tasks(d)) : \A k \in Indices(Tasks(d)') :
            Tasks(d)[j].uid = Tasks(d)'[k].uid => Tasks(d)[j].id = Tasks(d)'[k].id
      ]_vars

\* C18: the persisted progress of every task of both domains is always within
\* [0,1] (0 .. Full in the model's hundredths), and once a task's persisted
\* progress has reached 1.0 no later write of the store lowers it, whatever
\* happens to the task afterwards (cancel, failure, restart).
C18_ProgressBoundedAndFullStays ==
    [][/\ \A d \in Domains : \A k \in Indices(Tasks(d)') :
            Tasks(d)'[k].progress \in 0..Full
       /\ \A d \in Domains : \A j \in Indices(Tasks(d)) : \A k \in Indices(Tasks(d)') :
            (Tasks(d)[j].uid = Tasks(d)'[k].uid /\ Tasks(d)[j].progress >= Full)
                => Tasks(d)'[k].progress >= Tasks(d)[j].progress
      ]_vars

-----------------------------------------------------------------------------
\* The running application over a store that startup found damaged: startup
\* returns from a read or parse failure with the file as it was, so the
\* handlers then work on a file that cannot be read or cannot be parsed.
DamagedStates == {"unreadable", "corrupt"}

InitDamaged ==
    /\ dom \in Domains
    /\ \E f \in DamagedStates :
         store = [d \in Domains |->
                    IF d = dom THEN [fstate |-> f, tasks |-> <<>>] ELSE EmptyStore]
    /\ procs = <<>>
    /\ thr = [t \in Threads |-> Idle]
    /\ clock = 0
    /\ toolOk \in [Domains -> BOOLEAN] /\ \A d \in Domains \ {dom} : toolOk[d]
    /\ enq = 0
    /\ calls = 0
    /\ lines = 0
    /\ runs = 0
    /\ hist = [NoHist EXCEPT !.before = store]
    /\ enc = NoEnc

SpecDamaged == InitDamaged /\ [][Next]_vars

\* the write step of an enqueue whose read of the store failed
EnqueueOnDamaged ==
    /\ thr[UI].op = "enqueue" /\ thr[UI].pc = "enq_w"
    /\ thr'[UI] # thr[UI]
    /\ store[thr[UI].d] = hist.before[thr[UI].d]
    /\ ~ReadOk(thr[UI].d)

\* C19: an enqueue that could not read or parse the existing store reports
\* the failure to its caller and leaves the store exactly as it was.
C19_EnqueueOnDamagedStoreFails ==
    [][EnqueueOnDamaged => (store' = store /\ thr'[UI].pc = "idle" /\ thr'[UI].res = "err")]_vars


-----------------------------------------------------------------------------
\* The argument vector of the encoder child.  A string that the program
\* splits or joins is a sequence of pieces: a word, or " " for a run of
\* white space between two words.

\* strings.Fields
Fields(raw) == SelectSeq(raw, LAMBDA x : x # " ")

\* filepath.Ext of the output file, without its dot
OutputExt(f) == IF f = "out.webm" THEN "webm" ELSE IF f = "out.mp4" THEN "mp4" ELSE ""

\* the calls of AddTranscodeTaskWithParams the model makes
RawParams == {<<>>, <<"-an">>, <<"-crf", " ", "23">>, <<" ", "-vn", " ">>}

Requests ==
    [inputFile : {"in.mkv"}, outputFile : {"out.mp4", "out.webm"},
     videoCodec : {"", "libx264", "libx265"}, audioCodec : {"", "aac"},
     resolution : {"", "original", "720p", "800x600"}, bitrate : {"", "2M"},
     ffmpegParams : RawParams]

\* what startTranscode finds out about the machine: HasGPU and
\* CheckFFmpegGPU, the outcome of the probe runs of ffmpeg, the AMF encoders
\* listed by ffmpeg -encoders
Machines ==
    [hasGPU : BOOLEAN, ffmpegSupportsGPU : BOOLEAN,
     gpuType : {"nvidia", "amd", "intel", "other"},
     cudaOk : BOOLEAN, qsvOk : BOOLEAN, h264AMF : BOOLEAN, hevcAMF : BOOLEAN,
     d3dOk : BOOLEAN]

\* ffmpegArgs of AddTranscodeTaskWithParams
EnqueueArgs(req) ==
    IF req.ffmpegParams # <<>>
    THEN <<"-i", req.inputFile>> \o Fields(req.ffmpegParams) \o <<req.outputFile>>
    ELSE <<"-i", req.inputFile>>
         \o (IF req.videoCodec # "" THEN <<"-c:v", req.videoCodec>> ELSE <<>>)
         \o (IF req.audioCodec # "" THEN <<"-c:a", req.audioCodec>> ELSE <<>>)
         \o (IF req.resolution # "" THEN <<"-s", req.resolution>> ELSE <<>>)
         \o (IF req.bitrate # "" THEN <<"-b:v", req.bitrate>> ELSE <<>>)
         \o <<req.outputFile>>

\* the record AddTranscodeTaskWithParams appends: ffmpegCommand is the text
\* "ffmpeg " followed by the arguments joined with blanks
TranscodeRecord(req) ==
    [inputFile |-> req.inputFile, outputFile |-> req.outputFile,
     ffmpegCommand |-> <<"ffmpeg">> \o EnqueueArgs(req),
     videoCodec |-> req.videoCodec, audioCodec |-> req.audioCodec,
     resolution |-> req.resolution, bitrate |-> req.bitrate]

\* the encoder of the CPU path for an output format
CpuCodec(ext) == IF ext = "webm" THEN "libvpx-vp9" ELSE "libx264"

\* -hwaccel d3d11va as the fallback of every GPU type
DirectX(m, vc) ==
    IF m.d3dOk THEN [use |-> TRUE, hw |-> "d3d11va", preset |-> "", vc |-> vc]
    ELSE [use |-> FALSE, hw |-> "", preset |-> "", vc |-> vc]

\* the GPU encoder taking the place of libx264 / libx265 for mp4 and mkv
GpuCodec(ext, vc, h264, hevc) ==
    IF ext \in {"mp4", "mkv"}
    THEN IF vc = "libx264" THEN h264 ELSE IF vc = "libx265" THEN hevc ELSE vc
    ELSE vc

\* startTranscode's choice of acceleration and video encoder
Acceleration(task, m) ==
    LET ext == OutputExt(task.outputFile)
        vc0 == IF task.videoCodec # "" THEN task.videoCodec ELSE CpuCodec(ext)
        useGPU == m.hasGPU /\ m.ffmpegSupportsGPU
        vc  == IF useGPU THEN vc0 ELSE CpuCodec(ext)
    IN IF ~useGPU THEN [use |-> FALSE, hw |-> "", preset |-> "", vc |-> vc]
       ELSE IF m.gpuType = "nvidia"
       THEN IF m.cudaOk
            THEN [use |-> TRUE, hw |-> "cuda", preset |-> "p4",
                  vc |-> GpuCodec(ext, vc, "h264_nvenc", "hevc_nvenc")]
            ELSE DirectX(m, vc)
       ELSE IF m.gpuType = "amd"
       THEN IF m.h264AMF \/ m.hevcAMF
            THEN [use |-> TRUE, hw |-> "d3d11va", preset |-> "balanced",
                  vc |-> IF ext \in {"mp4", "mkv"}
                         THEN IF m.h264AMF THEN "h264_amf" ELSE "hevc_amf"
                         ELSE vc]
            ELSE DirectX(m, vc)
       ELSE IF m.gpuType = "intel"
       THEN IF m.qsvOk
            THEN [use |-> TRUE, hw |-> "qsv", preset |-> "veryfast",
                  vc |-> GpuCodec(ext, vc, "h264_qsv", "hevc_qsv")]
            ELSE DirectX(m, vc)
       ELSE DirectX(m, vc)

\* tuning arguments without the bound on the CPU threads
TuningArgsUnbounded(a) == <<"-preset", "medium">>

\* the encoder tuning arguments that follow -c:v
TuningArgs(a) ==
    IF ~a.use THEN <<"-preset", "medium", "-threads", "4">>
    ELSE IF a.vc \in {"h264_nvenc", "hevc_nvenc"}
    THEN <<"-preset", IF a.preset # "" THEN a.preset ELSE "p4", "-tune", "hq">>
    ELSE IF a.vc \in {"h264_amf", "hevc_amf"}
    THEN <<"-quality", "balanced", "-rc", "cbr_hq", "-g", "250">>
    ELSE IF a.vc \in {"h264_qsv", "hevc_qsv"}
    THEN <<"-preset", IF a.preset # "" THEN a.preset ELSE "veryfast", "-look_ahead", "1">>
    ELSE <<"-preset", "medium", "-threads", "4">>

\* resolutionMap, and a resolution that is not in it
ActualResolution(r) ==
    IF r = "1080p" THEN "1920x1080"
    ELSE IF r = "720p" THEN "1280x720"
    ELSE IF r = "480p" THEN "854x480"
    ELSE IF r = "360p" THEN "640x360"
    ELSE IF r = "240p" THEN "426x240"
    ELSE r

\* ffmpegArgs of startTranscode: built from the fields of the stored record
TranscodeArgs(task, m) ==
    LET ext == OutputExt(task.outputFile)
        a   == Acceleration(task, m)
        ac  == IF task.audioCodec # "" THEN task.audioCodec
               ELSE IF ext = "webm" THEN "libopus" ELSE "aac"
    IN (IF a.use /\ a.hw # "" THEN <<"-hwaccel", a.hw>> ELSE <<>>)
       \o <<"-i", task.inputFile>>
       \o <<"-c:v", a.vc>>
       \o TuningArgs(a)
       \o (IF task.resolution # "" /\ task.resolution # "original"
           THEN <<"-s", ActualResolution(task.resolution)>> ELSE <<>>)
       \o (IF task.bitrate # "" THEN <<"-b:v", task.bitrate>> ELSE <<>>)
       \o <<"-c:a", ac>>
       \o <<"-max_muxing_queue_size", "1024">>
       \o (IF ~a.use THEN <<"-filter_threads", "2">> ELSE <<>>)
       \o <<"-y", "-progress", "pipe:1", "-stats">>
       \o <<task.outputFile>>

\* AddTranscodeTaskWithParams builds the record of the request
AddTranscodeTask ==
    /\ enc.phase = "request"
    /\ enc' = [enc EXCEPT !.phase = "stored", !.task = TranscodeRecord(enc.req)]
    /\ UNCHANGED <<dom, store, procs, thr, clock, toolOk, enq, calls, lines, runs, hist>>

\* startTranscode builds the argument vector and launches the child with it
LaunchTranscode ==
    /\ enc.phase = "stored"
    /\ enc' = [enc EXCEPT !.phase = "launched",
                          !.argv = TranscodeArgs(enc.task, enc.machine)]
    /\ UNCHANGED <<dom, store, procs, thr, clock, toolOk, enq, calls, lines, runs, hist>>

InitArgs ==
    /\ dom = "transcode"
    /\ store = [d \in Domains |-> EmptyStore]
    /\ procs = <<>>
    /\ thr = [t \in Threads |-> Idle]
    /\ clock = 0
    /\ toolOk = [d \in Domains |-> TRUE]
    /\ enq = 0
    /\ calls = 0
    /\ lines = 0
    /\ runs = 0
    /\ hist = NoHist
    /\ \E r \in Requests : \E m \in Machines :
         enc = [phase |-> "request", req |-> r, machine |-> m,
                task |-> <<>>, argv |-> <<>>]

NextArgs ==
    \/ AddTranscodeTask
    \/ LaunchTranscode

SpecArgs == InitArgs /\ [][NextArgs]_vars

\* s occurs in t as a run of consecutive arguments
OccursIn(s, t) ==
    \E k \in 0..(Len(t) - Len(s)) : SubSeq(t, k + 1, k + Len(s)) = s

\* the flags startTranscode derives from the codec, resolution and bitrate
\* fields
DerivedFlags == {"-c:v", "-c:a", "-s", "-b:v"}

\* C20: the argument vector a transcode enqueued with a non-empty raw
\* override string is launched with contains the fields of the override, and
\* no codec, resolution or bitrate flag other than those the override holds.
C20_OverrideReplacesDerivedArgs ==
    (enc.phase = "launched" /\ enc.req.ffmpegParams # <<>>) =>
        /\ OccursIn(Fields(enc.req.ffmpegParams), enc.argv)
        /\ \A k \in Indices(enc.argv) :
             enc.argv[k] \in DerivedFlags =>
                 \E j \in Indices(enc.req.ffmpegParams) : enc.req.ffmpegParams[j] = enc.argv[k]


-----------------------------------------------------------------------------
\* parseFileSize.  A text is a sequence of characters.  A byte count is
\* written in base 1024, most significant limb first and without leading
\* zero limbs (<<>> is 0, <<512, 0>> is 512 * 1024), so that the counts of
\* the TB and PB units can be written down.  The magnitudes of the model are
\* those whose product with the multiplier float64 holds exactly.

\* the longest magnitude, in characters, of a free text
MaxText == 4

DigitChars == <<"0", "1", "2", "3", "4", "5", "6", "7", "8", "9">>
IsDigit(c) == \E k \in 1..10 : DigitChars[k] = c
DigitVal(c) == (CHOOSE k \in 1..10 : DigitChars[k] = c) - 1

\* strings.ReplaceAll(sizeStr, " ", "")
RemoveSpaces(s) == SelectSeq(s, LAMBDA c : c # " ")

\* the number of characters \d+ takes at the head of s
LeadingDigits(s) ==
    LET S == {n \in 0..Len(s) : \A k \in 1..n : IsDigit(s[k])}
    IN CHOOSE n \in S : \A m \in S : m <= n

\* [KkMmGgTtPp]?[Bb]?$
IsUnitText(u) ==
    \/ u = <<>>
    \/ Len(u) = 1 /\ u[1] \in {"K", "k", "M", "m", "G", "g", "T", "t", "P", "p", "B", "b"}
    \/ Len(u) = 2 /\ u[1] \in {"K", "k", "M", "m", "G", "g", "T", "t", "P", "p"}
                  /\ u[2] \in {"B", "b"}

\* sizeRegex.FindStringSubmatch: the number and the unit, or no match
SizeMatch(s) ==
    LET n1 == LeadingDigits(s)
        r1 == SubSeq(s, n1 + 1, Len(s))
        n2 == IF r1 # <<>> /\ r1[1] = "." THEN LeadingDigits(Tail(r1)) ELSE 0
        n  == IF n2 > 0 THEN n1 + 1 + n2 ELSE n1
        u  == SubSeq(s, n + 1, Len(s))
    IN IF n1 > 0 /\ IsUnitText(u)
       THEN [ok |-> TRUE, number |-> SubSeq(s, 1, n), unit |-> u]
       ELSE [ok |-> FALSE, number |-> <<>>, unit |-> <<>>]

\* the integer a run of digits writes
RECURSIVE DigitsValue(_)
DigitsValue(ds) ==
    IF ds = <<>> THEN 0
    ELSE 10 * DigitsValue(SubSeq(ds, 1, Len(ds) - 1)) + DigitVal(ds[Len(ds)])

RECURSIVE PowerOfTen(_)
PowerOfTen(n) == IF n = 0 THEN 1 ELSE 10 * PowerOfTen(n - 1)

\* strconv.ParseFloat of the matched number, as the fraction num / den
ParseFloat(number) ==
    LET n1 == LeadingDigits(number)
        fr == IF n1 < Len(number) THEN SubSeq(number, n1 + 2, Len(number)) ELSE <<>>
    IN [num |-> DigitsValue(SubSeq(number, 1, n1) \o fr), den |-> PowerOfTen(Len(fr))]

\* strings.ToUpper on the letters of a unit
UpperChar(c) ==
    IF c = "k" THEN "K" ELSE IF c = "m" THEN "M" ELSE IF c = "g" THEN "G"
    ELSE IF c = "t" THEN "T" ELSE IF c = "p" THEN "P" ELSE IF c = "b" THEN "B" ELSE c

ToUpper(u) == [k \in 1..Len(u) |-> UpperChar(u[k])]

\* the unit without the "B" added to a single letter
SizeUnitAsWritten(u) == IF u = <<>> THEN <<"B">> ELSE ToUpper(u)

\* the unit the switch looks at: upper case, a single letter gets a "B"
SizeUnit(u) ==
    IF u = <<>> THEN <<"B">>
    ELSE IF Len(u) = 1 THEN ToUpper(u) \o <<"B">> ELSE ToUpper(u)

\* the multiplier of the switch, as the exponent of 1024; a unit that is no
\* case of the switch leaves the multiplier at 1
MultiplierExp(unit) ==
    IF unit = <<"K", "B">> THEN 1
    ELSE IF unit = <<"M", "B">> THEN 2
    ELSE IF unit = <<"G", "B">> THEN 3
    ELSE IF unit = <<"T", "B">> THEN 4
    ELSE IF unit = <<"P", "B">> THEN 5
    ELSE 0

\* long division of a base-1024 number by a small divisor, the quotient's
\* limbs with their leading zeros
RECURSIVE DivLimbs(_, _, _)
DivLimbs(limbs, den, rem) ==
    IF limbs = <<>> THEN <<>>
    ELSE LET x == rem * 1024 + Head(limbs)
         IN <<x \div den>> \o DivLimbs(Tail(limbs), den, x % den)

RECURSIVE Normal(_)
Normal(limbs) ==
    IF limbs # <<>> /\ Head(limbs) = 0 THEN Normal(Tail(limbs)) ELSE limbs

\* int64(size * multiplier)
Truncated(num, den, exp) ==
    Normal(DivLimbs(<<num \div 1024, num % 1024>> \o [k \in 1..exp |-> 0], den, 0))

\* parseFileSize
ParseFileSizeOf(sizeStr) ==
    LET m == SizeMatch(RemoveSpaces(sizeStr))
        f == ParseFloat(m.number)
    IN IF ~m.ok THEN [err |-> TRUE, size |-> <<>>]
       ELSE [err |-> FALSE,
             size |-> Truncated(f.num, f.den, MultiplierExp(SizeUnit(m.unit)))]


\* the texts parseFileSize is called with: every text of up to MaxText
\* characters over SizeChars, and the magnitudes of SizeMagnitudes followed
\* by an optional space and every spelling of every unit
SizeChars == {"1", "2", "5", ".", " ", "K", "g", "B", "x"}

SizeMagnitudes == {<<"0">>, <<"2">>, <<"5", "1", "2">>, <<"1", ".", "5">>}

UnitLetters == <<"K", "M", "G", "T", "P">>

LowerChar(c) ==
    IF c = "K" THEN "k" ELSE IF c = "M" THEN "m" ELSE IF c = "G" THEN "g"
    ELSE IF c = "T" THEN "t" ELSE IF c = "P" THEN "p" ELSE IF c = "B" THEN "b" ELSE c

\* the spellings of the units B, KB, MB, GB, TB, PB with the power of 1024
\* each stands for: either letter case, with or without the B
UnitSpellings ==
    {[text |-> <<>>, exp |-> 0], [text |-> <<"B">>, exp |-> 0], [text |-> <<"b">>, exp |-> 0]}
    \cup UNION { { [text |-> <<l>> \o b, exp |-> k] :
                     l \in {UnitLetters[k], LowerChar(UnitLetters[k])},
                     b \in {<<>>, <<"B">>, <<"b">>} } : k \in 1..5 }

SizeTexts ==
    UNION {[1..n -> SizeChars] : n \in 0..MaxText}
    \cup {m \o sp \o u.text : m \in SizeMagnitudes, sp \in {<<>>, <<" ">>}, u \in UnitSpellings}

\* one call of parseFileSize
ParseFileSize ==
    /\ enc.phase = "text"
    /\ enc' = [enc EXCEPT !.phase = "parsed", !.result = ParseFileSizeOf(enc.sizeStr)]
    /\ UNCHANGED <<dom, store, procs, thr, clock, toolOk, enq, calls, lines, runs, hist>>

InitSize ==
    /\ dom = "download"
    /\ store = [d \in Domains |-> EmptyStore]
    /\ procs = <<>>
    /\ thr = [t \in Threads |-> Idle]
    /\ clock = 0
    /\ toolOk = [d \in Domains |-> TRUE]
    /\ enq = 0
    /\ calls = 0
    /\ lines = 0
    /\ runs = 0
    /\ hist = NoHist
    /\ \E t \in SizeTexts :
         enc = [phase |-> "text", sizeStr |-> t, result |-> [err |-> FALSE, size |-> <<>>]]

NextSize == ParseFileSize

SpecSize == InitSize /\ [][NextSize]_vars

\* a magnitude: digits, optionally followed by a point and digits
IsMagnitude(m) ==
    \E a \in 1..Len(m) :
        /\ \A k \in 1..a : IsDigit(m[k])
        /\ \/ a = Len(m)
           \/ /\ Len(m) >= a + 2
              /\ m[a + 1] = "."
              /\ \A k \in (a + 2)..Len(m) : IsDigit(m[k])

\* the ways to read a text as a magnitude, an optional space and a unit
SizeReadings(s) ==
    {r \in [n : 1..Len(s), sp : {<<>>, <<" ">>}, unit : UnitSpellings] :
        /\ IsMagnitude(SubSeq(s, 1, r.n))
        /\ s = SubSeq(s, 1, r.n) \o r.sp \o r.unit.text}

\* the integer a byte count of at most four limbs writes
RECURSIVE IntOf(_)
IntOf(limbs) ==
    IF limbs = <<>> THEN 0
    ELSE 1024 * IntOf(SubSeq(limbs, 1, Len(limbs) - 1)) + limbs[Len(limbs)]

SoftwareCodecs == {"libx264", "libx265", "libvpx-vp9"}

\* C22: when the GPU probe finds no GPU or the encoder tool reports no
\* hardware-acceleration support, the argument list startTranscode launches
\* the child with has no -hwaccel flag, names a software video codec after
\* -c:v, and holds the CPU thread bound and the filter-thread bound.
C22_SoftwarePath ==
    (/\ enc.phase = "launched"
     /\ ~enc.machine.hasGPU \/ ~enc.machine.ffmpegSupportsGPU) =>
        /\ \A k \in Indices(enc.argv) : enc.argv[k] # "-hwaccel"
        /\ \E c \in SoftwareCodecs : OccursIn(<<"-c:v", c>>, enc.argv)
        /\ OccursIn(<<"-threads", "4">>, enc.argv)
        /\ OccursIn(<<"-filter_threads", "2">>, enc.argv)

\* a GPU is there but ffmpeg has no support for it, and the task asks for a
\* codec of its own: the child is launched on the software path
C22_Witness ==
    /\ enc.phase = "launched"
    /\ enc.machine.hasGPU /\ ~enc.machine.ffmpegSupportsGPU
    /\ enc.task.videoCodec = "libx265"
    /\ OccursIn(<<"-c:v", "libx264", "-preset", "medium", "-threads", "4">>, enc.argv)


\* monitor p has come back from the wait for its child, has read the store
\* and is about to write the list it holds
ExitDecided(p) ==
    /\ thr[p].op = "monitor"
    /\ thr[p].pc \in {"scan", "wait"}
    /\ thr'[p].pc = "ex_w"

\* C23: exit bookkeeping never overwrites a terminal status: if the record is
\* cancelled, completed or failed in the list the monitor reads after the
\* child's exit, the list the monitor writes has the record with that same
\* status, whatever the exit outcome of the child.
C23_ExitKeepsTerminalStatus ==
    [][\A p \in Monitors :
        ExitDecided(p) =>
            LET list == Tasks(thr[p].d)
                k == IndexOfId(list, thr[p].id)
            IN (k # 0 /\ list[k].status \in Terminal) =>
                   thr'[p].snap[k].status = list[k].status
      ]_vars


\* C24: no task is ever lost from a store: a record an enqueue has written
\* is in the store after every later step, under every interleaving of the
\* enqueue with the updates of monitors, cancel and scheduler.
C24_NoTaskLost ==
    [][\A d \in Domains : \A j \in Indices(Tasks(d)) :
          \E k \in Indices(Tasks(d)') : Tasks(d)'[k].uid = Tasks(d)[j].uid
      ]_vars


\* the monitor of transcode child p has written the outcome of the exit
ExitPersisted(p) ==
    /\ thr[p].op = "monitor" /\ thr[p].d = "transcode"
    /\ thr[p].pc \notin {"wait", "ex_w"}
    /\ procs[p].state \in {"done", "failed"}

\* a stream reader of child p writes the store
ReaderWrites(p) ==
    /\ thr[MaxSpawns + p].op = "reader" /\ thr[MaxSpawns + p].pc = "up_w"
    /\ thr'[MaxSpawns + p] # thr[MaxSpawns + p]

\* C25: once the monitor of a transcode has persisted the terminal status of
\* the task whose child exited, no later store write of that child's stream
\* readers changes the status of any record: the task is not put back to
\* transcoding and the task promoted next keeps its status.
C25_ReadersKeepStatuses ==
    [][\A p \in Monitors :
        (ExitPersisted(p) /\ ReaderWrites(p)) =>
            \A j \in Indices(Tasks("transcode")) : \A k \in Indices(Tasks("transcode")') :
                Tasks("transcode")[j].uid = Tasks("transcode")'[k].uid =>
                    Tasks("transcode")'[k].status = Tasks("transcode")[j].status
      ]_vars


\* the children of a domain that run
RunningChildren(d) == {p \in DOMAIN procs : procs[p].d = d /\ Running(p)}

\* C26: in each domain at most one child process is alive at any time, under
\* every interleaving of enqueue, cancel, resume-waiting and exit
\* bookkeeping.
C26_AtMostOneChild == \A d \in Domains : Cardinality(RunningChildren(d)) <= 1


\* the step starts the monitoring goroutine of child p
MonitorStarts(p) == thr[p].op # "monitor" /\ thr'[p].op = "monitor"

\* the store holds the task of child p as active under pid p
PersistedActive(p) ==
    \E k \in Indices(Tasks(procs[p].d)) :
        /\ Tasks(procs[p].d)[k].id = procs[p].id
        /\ Tasks(procs[p].d)[k].status = ActiveStatus(procs[p].d)
        /\ Tasks(procs[p].d)[k].pid = p

\* C27: in both domains the start persists the status active together with
\* the child's pid after the launch and before the monitoring activity reads
\* any line of the child's output: the monitoring of child p starts on a
\* launched child, with the store holding the task as active under pid p,
\* and a line is consumed only by a monitoring thread started before.
C27_ActivePersistedBeforeOutput ==
    [][/\ \A p \in Monitors :
            MonitorStarts(p) => (p \in DOMAIN procs /\ PersistedActive(p)')
       /\ lines' # lines =>
            \E x \in Monitors \cup Readers :
                /\ thr[x].op \in {"monitor", "reader"} /\ thr[x].pc = "scan"
                /\ thr'[x] # thr[x]
      ]_vars


\* no operation is mid-flight: the UI is idle and every goroutine waits for
\* output or for the exit of its child, or has ended
Settled ==
    /\ thr[UI].pc = "idle"
    /\ \A t \in Monitors \cup Readers : thr[t].pc \in {"idle", "scan", "wait", "done"}

\* C28: no child process runs untracked: whenever no operation is mid-flight,
\* every running child belongs to a task whose persisted status is active
\* and whose persisted pid is the pid of that child.
C28_NoUntrackedChild ==
    Settled => \A p \in DOMAIN procs : Running(p) => PersistedActive(p)


-----------------------------------------------------------------------------
\* The download queue left to itself: the caller makes no call, so the one
\* goroutine at work is the monitor of the last child, and each of its
\* handlers is one step.  A pid is free again when its child has ended; the
\* next child gets pid 1.

\* the longest queue
MaxQueue == 3

\* the queues earlier calls can have left: distinct ids in the order of the
\* enqueues, no task downloading
QueuedLists ==
    UNION { { [k \in 1..n |-> [NewTask(k, k, k) EXCEPT !.status = sts[k]]] :
                sts \in [1..n -> {"waiting", "completed", "cancelled"}] }
            : n \in 1..MaxQueue }

\* startNextWaitingTask followed by startDownload of the task it picks
StartNextWaitingTask ==
    /\ thr[1].pc = "sn"
    /\ LET list == ReadList("download")
           k == FirstWaiting(list)
       IN IF HasActive(list, "download") \/ k = 0
          THEN /\ thr' = [thr EXCEPT ![1] = [Idle EXCEPT !.op = "monitor", !.pc = "done"]]
               /\ UNCHANGED <<store, procs>>
          ELSE /\ procs' = <<[id |-> list[k].id, d |-> "download", state |-> "running"]>>
               /\ store' = Written("download", MarkDownloading(list, list[k].id, 1))
               /\ thr' = [thr EXCEPT ![1] = MonitorThread("download", list[k].id)]
    /\ UNCHANGED <<enc, dom, clock, toolOk, enq, calls, lines, runs, hist>>

\* the child ends and its monitor does the exit bookkeeping
DownloadMonitorExit ==
    /\ thr[1].op = "monitor" /\ thr[1].pc = "scan"
    /\ Running(1)
    /\ \E clean \in BOOLEAN :
        LET list == ReadList("download")
        IN /\ procs' = [procs EXCEPT ![1].state = IF clean THEN "done" ELSE "failed"]
           /\ store' = IF DownloadExitSkips(list, thr[1].id) THEN store
                       ELSE Written("download", DownloadExit(list, thr[1].id, clean))
    /\ thr' = [thr EXCEPT ![1] = [@ EXCEPT !.pc = "sn"]]
    /\ UNCHANGED <<enc, dom, clock, toolOk, enq, calls, lines, runs, hist>>

InitStarve ==
    /\ dom = "download"
    /\ \E l \in QueuedLists :
         store = [d \in Domains |->
                    IF d = "download" THEN [fstate |-> "ok", tasks |-> l] ELSE EmptyStore]
    /\ procs = <<>>
    /\ thr = [t \in Threads |->
                IF t = 1 THEN [Idle EXCEPT !.op = "monitor", !.pc = "sn"] ELSE Idle]
    /\ clock = MaxQueue
    /\ toolOk = [d \in Domains |-> TRUE]
    /\ enq = MaxQueue
    /\ calls = 0
    /\ lines = 0
    /\ runs = 0
    /\ hist = NoHist
    /\ enc = NoEnc

NextStarve ==
    \/ StartNextWaitingTask
    \/ DownloadMonitorExit

\* every handler that can run does run, and every child ends
SpecStarve ==
    /\ InitStarve
    /\ [][NextStarve]_vars
    /\ WF_vars(StartNextWaitingTask)
    /\ WF_vars(DownloadMonitorExit)

\* C29: no starvation: with store I/O succeeding and every child ending,
\* every download that is waiting (and is never cancelled: no cancel is
\* made) eventually becomes active, whatever the exit outcomes of the
\* children of the tasks before it.
C29_NoStarvation ==
    \A k \in 1..MaxQueue :
        (k \in Indices(Tasks("download")) /\ Tasks("download")[k].status = "waiting")
            ~> (k \in Indices(Tasks("download")) /\ Tasks("download")[k].status = "downloading")

\* the step of startup that reads the store of d and picks the task to start
StartupPicks(d) ==
    /\ thr[UI].op = "startup"
    /\ thr[UI].pc = (IF d = "download" THEN "su_dl" ELSE "su_tc")
    /\ thr'[UI].op = "startup"
    /\ thr'[UI].pc = (IF d = "download" THEN "sd" ELSE "st")

\* a store as a run without races leaves it: the records never started keep
\* the start times of their enqueues, which follow list order, and at most
\* one record is active
SerialStore(list, d) ==
    /\ \A j, k \in Indices(list) :
          (j < k /\ list[j].status = "waiting" /\ list[k].status = "waiting")
              => list[j].startTime <= list[k].startTime
    /\ Cardinality({k \in Indices(list) : list[k].status = ActiveStatus(d)}) <= 1

\* the task runtime promotion would start on the demoted list: the first
\* waiting one in list order, which is the earliest enqueued
PromotionChoice(d) == Demote(Tasks(d), d)[FirstWaiting(Demote(Tasks(d), d))]

\* C30: the task startup recovery picks in a store is the first waiting
\* task in list order of the demoted list (the earliest enqueued, the one
\* runtime promotion would start), in both domains.
C30_RecoveryAgreesWithPromotion ==
    [][\A d \in Domains :
          (StartupPicks(d) /\ SerialStore(Tasks(d), d))
              => /\ thr'[UI].id = PromotionChoice(d).id
                 /\ \A j \in Indices(Tasks(d)) :
                        Demote(Tasks(d), d)[j].status = "waiting"
                            => Tasks(d)[j].uid >= PromotionChoice(d).uid]_vars

\* the same for the download store alone, whose start times are never
\* rewritten
C30_DownloadRecoveryAgrees ==
    [][(StartupPicks("download") /\ SerialStore(Tasks("download"), "download"))
          => thr'[UI].id = PromotionChoice("download").id]_vars

\* the step at which the enqueue call in progress returns an error
EnqueueFails ==
    /\ thr[UI].op = "enqueue"
    /\ thr'[UI].pc = "idle"
    /\ thr'[UI].res = "err"

\* C31: when an enqueue call returns an error, the store holds no record
\* created by that call (the record of the latest enqueue, uid = enq).
C31_FailedEnqueueLeavesNoRecord ==
    [][EnqueueFails =>
          \A k \in Indices(Tasks(thr[UI].d)') : Tasks(thr[UI].d)'[k].uid # enq]_vars

-----------------------------------------------------------------------------
\* The application is being closed while it works.

\* shutdown (run by beforeClose and again as the shutdown hook): the download
\* store is read and "taskkill /F /PID" is run on the pid of every record
\* found downloading; the store is not written, the goroutines go on until
\* the process ends.  A store that cannot be read ends it at once.
Shutdown ==
    /\ thr[UI].pc = "idle"
    /\ calls < MaxCalls
    /\ calls' = calls + 1
    /\ LET list == IF ReadOk("download") THEN ReadList("download") ELSE <<>>
           K == {list[k].pid : k \in {j \in Indices(list) : list[j].status = "downloading"}}
       IN /\ procs' = [p \in DOMAIN procs |->
                          IF p \in K /\ Running(p)
                          THEN [procs[p] EXCEPT !.state = "killed"] ELSE procs[p]]
          /\ hist' = Logged("shutdown", 0, \E p \in K : Running(p))
    /\ UNCHANGED <<enc, dom, store, thr, clock, toolOk, enq, lines, runs>>

NextShutdown == Next \/ Shutdown

SpecShutdown == Init /\ [][NextShutdown]_vars

\* shutdown has asked for the end of an active download's child, and no
\* caller has invoked enqueue or resume since
ShutdownKilled ==
    \E n \in DOMAIN hist.log :
        /\ hist.log[n].op = "shutdown" /\ hist.log[n].has
        /\ \A m \in DOMAIN hist.log : m > n => hist.log[m].op \notin {"enqueue", "resume"}

\* C32: once shutdown has asked for the end of the active download's child,
\* no download child is launched unless a caller invokes enqueue or resume.
C32_NoLaunchAfterShutdown ==
    [][ShutdownKilled => ~ \E t \in Threads : Launch(t) /\ thr[t].pc = "sd"]_vars

-----------------------------------------------------------------------------
\* monitorTranscodeProgress in detail: the variables the two stream readers
\* share, and the record of the task in the store.  Fractions are counted in
\* units of 0.00001, so that a frame count divided by 100000.0 is the frame
\* count itself.

\* 1.0, 0.99, the fixed increment 0.001 and the minimum delta 0.005
One == 100000
Ceiling == 99000
Increment == 100
MinDelta == 500

\* lines processed by the readers of one child
MaxSteps == 3

\* seconds of out_time lines and of the Duration announcement, frame counts
OutTimes == {0, 10, 40}
Durations == {0, 20, 40}
Frames == {0, 30000, 200000}

StdoutLines ==
    {<<"out_time", t>> : t \in OutTimes} \cup {<<"frame", f>> : f \in Frames}
    \cup {<<"speed", 0>>, <<"progress", 0>>, <<"progress", 1>>}

StderrLines == {<<"Duration", d>> : d \in Durations} \cup {<<"Error", 0>>, <<"other", 0>>}

Min(a, b) == IF a < b THEN a ELSE b

\* currentTime / totalDuration, a float64 division: +Inf for a zero divisor
Ratio(t, total) == IF total = 0 THEN 2 * One ELSE (t * One) \div total

\* updateTranscodeProgress on the task's record
UpdateRecord(rec, progress, errorMsg) ==
    [rec EXCEPT !.progress = IF progress >= 0 THEN progress ELSE @,
                !.error = IF errorMsg # "" THEN errorMsg ELSE @]

\* the three tiers of the progress computation, on the monitor's variables
\* after the line's field was taken; the time tier clips currentTime
TimeTier(m) == m.hasTotalDuration /\ m.totalDuration > 0 /\ m.currentTime > 0

CalculatedProgress(m) ==
    LET c == IF TimeTier(m)
             THEN Ratio(Min(m.currentTime, m.totalDuration), m.totalDuration)
             ELSE IF m.currentFrame > 0 THEN Min(m.currentFrame, Ceiling)
             ELSE Min(m.currentProgress + Increment, Ceiling)
    IN IF c < 0 THEN 0 ELSE Min(c, One)

\* the child prints out_time and frame values that do not go back, and
\* progress=end as the last line of its standard stream
Printable(key, value) ==
    /\ ~enc.ended
    /\ key = "out_time" => value >= enc.m.currentTime
    /\ key = "frame" => value >= enc.m.currentFrame

\* one iteration of the stdout reader's loop on the line key=value
StdoutLine(key, value) ==
    LET m0 == enc.m
        m1 == IF key = "out_time" THEN [m0 EXCEPT !.currentTime = value]
              ELSE IF key = "frame" THEN [m0 EXCEPT !.currentFrame = value]
              ELSE IF key = "progress" /\ value = 1 THEN [m0 EXCEPT !.currentProgress = One]
              ELSE m0
        end == key = "progress" /\ value = 1
        r1 == IF end THEN UpdateRecord(enc.rec, One, "") ELSE enc.rec
        c == CalculatedProgress(m1)
        m2 == IF TimeTier(m1)
              THEN [m1 EXCEPT !.currentTime = Min(m1.currentTime, m1.totalDuration)]
              ELSE m1
        commit == c > m2.currentProgress + MinDelta \/ c = One
    IN /\ enc.phase = "monitor" /\ enc.n < MaxSteps
       /\ Printable(key, value)
       /\ enc' = [enc EXCEPT
                    !.n = @ + 1,
                    !.m = IF commit THEN [m2 EXCEPT !.currentProgress = c] ELSE m2,
                    !.rec = IF commit THEN UpdateRecord(r1, c, "") ELSE r1,
                    !.ended = @ \/ end,
                    !.last = IF commit THEN "commit" ELSE IF end THEN "end" ELSE "none"]
       /\ UNCHANGED <<dom, store, procs, thr, clock, toolOk, enq, calls, lines, runs, hist>>

\* one iteration of the stderr reader's loop
StderrLine(key, value) ==
    LET m0 == enc.m
        announce == key = "Duration" /\ ~m0.hasTotalDuration
        m1 == IF announce
              THEN [m0 EXCEPT !.totalDuration = value, !.hasTotalDuration = TRUE]
              ELSE m0
        p == Min(Ratio(m1.currentTime, m1.totalDuration), One)
        set == announce /\ m1.currentTime > 0
    IN /\ enc.phase = "monitor" /\ enc.n < MaxSteps
       /\ enc' = [enc EXCEPT
                    !.n = @ + 1,
                    !.m = IF key = "Error" THEN m0
                          ELSE IF set THEN [m1 EXCEPT !.currentProgress = p] ELSE m1,
                    !.rec = IF key = "Error"
                            THEN UpdateRecord(enc.rec, m0.currentProgress, "Error")
                            ELSE IF set THEN UpdateRecord(enc.rec, p, "") ELSE enc.rec,
                    !.last = IF key = "Error" THEN "error"
                             ELSE IF set THEN "duration" ELSE "none"]
       /\ UNCHANGED <<dom, store, procs, thr, clock, toolOk, enq, calls, lines, runs, hist>>

\* cmd.Wait() has returned: the exit bookkeeping on the record; the readers
\* are not waited for and may still process lines they have scanned
MonitorExit(clean) ==
    /\ enc.phase = "monitor" /\ enc.rec.status = "transcoding"
    /\ enc' = [enc EXCEPT
                 !.rec = IF clean
                         THEN [@ EXCEPT !.status = "completed", !.progress = One]
                         ELSE [@ EXCEPT !.status = "failed",
                                        !.error = IF @ = "" THEN "exit status 1" ELSE @],
                 !.last = "exit"]
    /\ UNCHANGED <<dom, store, procs, thr, clock, toolOk, enq, calls, lines, runs, hist>>

\* the monitor starts with its variables at zero; the record was written as
\* transcoding by startTranscode, which leaves Progress and Error as they
\* were: zero and empty for a new task, what the previous run left for a
\* task started again after a restart of the application
StartedProgress == {0, 30000}

InitMonitor ==
    /\ dom = "transcode"
    /\ store = [d \in Domains |-> EmptyStore]
    /\ procs = <<>>
    /\ thr = [t \in Threads |-> Idle]
    /\ clock = 0
    /\ toolOk = [d \in Domains |-> TRUE]
    /\ enq = 0 /\ calls = 0 /\ lines = 0 /\ runs = 0
    /\ hist = NoHist
    /\ \E p \in StartedProgress :
         enc = [phase |-> "monitor", n |-> 0, ended |-> FALSE, last |-> "none",
                m |-> [currentProgress |-> 0, totalDuration |-> 0,
                       hasTotalDuration |-> FALSE, currentTime |-> 0,
                       currentFrame |-> 0],
                rec |-> [status |-> "transcoding", progress |-> p, error |-> ""]]

NextMonitor ==
    \/ \E ln \in StdoutLines : StdoutLine(ln[1], ln[2])
    \/ \E ln \in StderrLines : StderrLine(ln[1], ln[2])
    \/ \E clean \in BOOLEAN : MonitorExit(clean)

SpecMonitor == InitMonitor /\ [][NextMonitor]_vars

\* C33: while the transcode task is active its persisted progress never
\* decreases from one store write to the next, whatever the order of the
\* lines of the two streams.
C33_ProgressNeverDecreases ==
    [][(enc.phase = "monitor" /\ enc.rec.status = "transcoding"
            /\ enc'.rec.status = "transcoding")
          => enc'.rec.progress >= enc.rec.progress]_vars

\* C34: until a progress=end line is read, the fraction that the tiers of
\* the stdout reader compute and commit is at most 0.99.
C34_BelowOneUntilEnd ==
    [][(enc.phase = "monitor" /\ enc'.n = enc.n + 1 /\ enc'.last = "commit"
            /\ ~enc'.ended)
          => enc'.m.currentProgress <= Ceiling]_vars

\* the step called updateTranscodeProgress with a progress value
WritesProgress == enc'.last \in {"commit", "end", "error", "duration"}

\* C35: a progress value written by the monitor exceeds the value it
\* committed last (currentProgress) by more than the minimum delta, or is 1.0.
C35_WritesOnlyAboveDelta ==
    [][(enc.phase = "monitor" /\ enc'.n = enc.n + 1 /\ WritesProgress)
          => \/ enc'.rec.progress > enc.m.currentProgress + MinDelta
             \/ enc'.rec.progress = One]_vars

-----------------------------------------------------------------------------
\* The download monitor's progress lines one after the other, on the list of
\* the store: the task monitored is the first record, a second one waits.

\* sizes that parseFileSize returns for the columns of a progress line
LineSizes == 0..4

\* percentages a record started again carries from the previous run
StartedPercentages == {0, 50 * Full}

MonitoredLists ==
    { <<[StoredTask("download", 1, "downloading", 1) EXCEPT !.pid = 1, !.progress = a]>>
        : a \in StartedPercentages }
    \cup
    { <<[StoredTask("download", 1, "downloading", 1) EXCEPT !.pid = 1, !.progress = a],
        [StoredTask("download", 2, "waiting", 1) EXCEPT !.progress = b]>>
        : a \in StartedPercentages, b \in StartedPercentages }

\* one matched progress line: sizes parsed, percentage computed, the record
\* of the task updated in the list read and the list written
ProgressLine(downloaded, total) ==
    /\ enc.phase = "download" /\ enc.n < MaxSteps
    /\ downloaded <= total \/ total = 0
    /\ enc' = [enc EXCEPT !.n = @ + 1,
                          !.line = <<downloaded, total>>,
                          !.list = DownloadProgress(@, 1, downloaded, total)]
    /\ UNCHANGED <<dom, store, procs, thr, clock, toolOk, enq, calls, lines, runs, hist>>

InitLines ==
    /\ dom = "download"
    /\ store = [d \in Domains |-> EmptyStore]
    /\ procs = <<>>
    /\ thr = [t \in Threads |-> Idle]
    /\ clock = 0
    /\ toolOk = [d \in Domains |-> TRUE]
    /\ enq = 0 /\ calls = 0 /\ lines = 0 /\ runs = 0
    /\ hist = NoHist
    /\ \E l \in MonitoredLists :
         enc = [phase |-> "download", n |-> 0, line |-> <<0, 0>>, list |-> l]

NextLines == \E downloaded \in LineSizes, total \in LineSizes : ProgressLine(downloaded, total)

SpecLines == InitLines /\ [][NextLines]_vars

\* C36: after a parsed progress line the persisted percentage is
\* downloaded/total (as a percentage) when total > 0, and is the previous
\* value when total = 0.
C36_PercentageOfLine ==
    [][(enc.phase = "download" /\ enc'.n = enc.n + 1)
          => LET downloaded == enc'.line[1]
                 total == enc'.line[2]
             IN /\ total > 0 =>
                     enc'.list[1].progress = (downloaded * 100 * Full) \div total
                /\ total = 0 => enc'.list[1].progress = enc.list[1].progress]_vars

\* the first half alone: the percentage of a line with a positive total
C36_PercentageWhenTotalPositive ==
    [][(enc.phase = "download" /\ enc'.n = enc.n + 1 /\ enc'.line[2] > 0)
          => enc'.list[1].progress = (enc'.line[1] * 100 * Full) \div enc'.line[2]]_vars

\* C37: processing an error line of the error stream leaves the persisted
\* progress and status of the task as they were.
C37_ErrorLineChangesErrorOnly ==
    [][(enc.phase = "monitor" /\ enc'.n = enc.n + 1 /\ enc'.last = "error")
          => /\ enc'.rec.progress = enc.rec.progress
             /\ enc'.rec.status = enc.rec.status]_vars

\* C38: in every persisted store state a task with a non-empty error field
\* has status failed.
C38_ErrorOnlyOnFailed ==
    \A d \in Domains : \A k \in Indices(Tasks(d)) :
        Tasks(d)[k].error # "" => Tasks(d)[k].status = "failed"

\* the container-derived default of the audio codec
DefaultAudio(ext) == IF ext = "webm" THEN "libopus" ELSE "aac"

\* C39: the video and the audio codec in the argument list of the child are
\* the ones the caller specified when the caller specified one, and the
\* container-derived defaults when the caller specified none, whatever the
\* GPU probes found.
C39_CallerCodecKept ==
    enc.phase = "launched" =>
        LET ext == OutputExt(enc.req.outputFile)
        IN /\ OccursIn(<<"-c:v", IF enc.req.videoCodec # "" THEN enc.req.videoCodec
                                 ELSE CpuCodec(ext)>>, enc.argv)
           /\ OccursIn(<<"-c:a", IF enc.req.audioCodec # "" THEN enc.req.audioCodec
                                 ELSE DefaultAudio(ext)>>, enc.argv)

\* the audio half alone
C39_AudioCodecKept ==
    enc.phase = "launched" =>
        OccursIn(<<"-c:a", IF enc.req.audioCodec # "" THEN enc.req.audioCodec
                           ELSE DefaultAudio(OutputExt(enc.req.outputFile))>>, enc.argv)

-----------------------------------------------------------------------------
\* The asset middleware (customMiddleware).  A path is a sequence of
\* elements; an element is a sequence of pieces of text, so that the
\* directory name "downloads" is a prefix of the name "downloads-x"; the
\* text of a path puts "/" before every element.

MaxElements == 4

DotDot == <<"..">>

ElementNames ==
    {<<"downloads">>, <<"downloads", "-x">>, <<"transcode">>, <<"transcode", "-x">>,
     DotDot, <<"f">>}

RECURSIVE PathText(_)
PathText(els) ==
    IF els = <<>> THEN <<>> ELSE <<"/">> \o Head(els) \o PathText(Tail(els))

\* strings.HasPrefix, which filepath.HasPrefix is
HasPrefix(text, prefix) ==
    Len(prefix) <= Len(text) /\ SubSeq(text, 1, Len(prefix)) = prefix

\* the working directory of the application
WorkDir == <<<<"srv">>, <<"app">>>>

\* filepath.Abs(filepath.Join(".", path)): the elements are applied to the
\* working directory, ".." removing the last element if there is one
RECURSIVE Resolved(_, _)
Resolved(dir, els) ==
    IF els = <<>> THEN dir
    ELSE IF Head(els) = DotDot
    THEN Resolved(IF dir = <<>> THEN dir ELSE SubSeq(dir, 1, Len(dir) - 1), Tail(els))
    ELSE Resolved(Append(dir, Head(els)), Tail(els))

\* http.ServeFile: a request path with a ".." element is rejected, else the
\* file of the given name is served
ServeFile(urlPath, name) ==
    IF \E k \in DOMAIN urlPath : urlPath[k] = DotDot
    THEN [resp |-> "invalid URL path", file |-> <<>>]
    ELSE [resp |-> "served", file |-> name]

\* one of the two branches of the middleware, for the directory named root
AssetBranch(urlPath, root) ==
    LET absPath == Resolved(WorkDir, urlPath)
        absDir == Resolved(WorkDir, <<root>>)
    IN IF ~HasPrefix(PathText(absPath), PathText(absDir))
       THEN [resp |-> "Access denied", file |-> <<>>]
       ELSE ServeFile(urlPath, absPath)

CustomMiddlewareOf(urlPath) ==
    IF HasPrefix(PathText(urlPath), <<"/", "downloads", "/">>)
    THEN AssetBranch(urlPath, <<"downloads">>)
    ELSE IF HasPrefix(PathText(urlPath), <<"/", "transcode", "/">>)
    THEN AssetBranch(urlPath, <<"transcode">>)
    ELSE [resp |-> "next", file |-> <<>>]

UrlPaths == UNION {[1..n -> ElementNames] : n \in 1..MaxElements}

\* the middleware answers the request
CustomMiddleware ==
    /\ enc.phase = "request"
    /\ enc' = [enc EXCEPT !.phase = "answered", !.answer = CustomMiddlewareOf(enc.path)]
    /\ UNCHANGED <<dom, store, procs, thr, clock, toolOk, enq, calls, lines, runs, hist>>

InitAssets ==
    /\ dom = "download"
    /\ store = [d \in Domains |-> EmptyStore]
    /\ procs = <<>>
    /\ thr = [t \in Threads |-> Idle]
    /\ clock = 0
    /\ toolOk = [d \in Domains |-> TRUE]
    /\ enq = 0 /\ calls = 0 /\ lines = 0 /\ runs = 0
    /\ hist = NoHist
    /\ \E p \in UrlPaths :
         enc = [phase |-> "request", path |-> p, answer |-> [resp |-> "", file |-> <<>>]]

NextAssets == CustomMiddleware

SpecAssets == InitAssets /\ [][NextAssets]_vars

\* the directory a request path asks for, <<>> if it is for the next handler
AssetRoot(urlPath) ==
    IF HasPrefix(PathText(urlPath), <<"/", "downloads", "/">>) THEN <<"downloads">>
    ELSE IF HasPrefix(PathText(urlPath), <<"/", "transcode", "/">>) THEN <<"transcode">>
    ELSE <<>>

\* the absolute path lies inside the directory root of the working directory
Inside(absPath, root) ==
    /\ Len(absPath) > Len(WorkDir) + 1
    /\ SubSeq(absPath, 1, Len(WorkDir) + 1) = Append(WorkDir, root)

\* C40: for a request path under /downloads/ or /transcode/ a file is served
\* only when the resolved path lies inside that directory, and a path that
\* resolves elsewhere, a sibling whose name starts with the directory name
\* included, is answered with Access denied.
C40_AssetsOnlyInsideDirectory ==
    (enc.phase = "answered" /\ AssetRoot(enc.path) # <<>>) =>
        LET absPath == Resolved(WorkDir, enc.path)
        IN /\ enc.answer.resp = "served" =>
                (Inside(absPath, AssetRoot(enc.path)) /\ enc.answer.file = absPath)
           /\ ~Inside(absPath, AssetRoot(enc.path)) =>
                \/ enc.answer.resp = "Access denied"
                \/ absPath = Append(WorkDir, AssetRoot(enc.path))

\* the first half alone: what is served lies inside the directory
C40_ServedOnlyInside ==
    (enc.phase = "answered" /\ AssetRoot(enc.path) # <<>>
        /\ enc.answer.resp = "served") =>
        /\ Inside(Resolved(WorkDir, enc.path), AssetRoot(enc.path))
        /\ enc.answer.file = Resolved(WorkDir, enc.path)

====
